---- MODULE Spec2Model ----
(***************************************************************************)
(* Zimtohrli: the resonator filterbank and the loudness/masking transform  *)
(* (tabuli::Rotators, FinalizeDb), the compare tool and the listening-test *)
(* study of the score tool, as state machines.                             *)
(*                                                                         *)
(* Numbers.  The C++ code computes in float/double.  The model computes in *)
(* integers: loudness in whole decibels, fractions in per-mille with the   *)
(* product rounded down, energies in a unit in which the epsilon of        *)
(* SimpleDb is 2^16.  Samples are bounded in amplitude, so no float        *)
(* overflows to infinity or NaN.                                           *)
(***************************************************************************)
EXTENDS Integers, Sequences, FiniteSets, TLC

VARIABLES
    \* ---- Rotators::FilterAndDownsample (one Rotators instance, one output matrix)
    signal,      \* hwy::Span<const float> signal: the samples of the current call
    downsampling,\* int downsampling
    channels,    \* hwy::AlignedNDArray<float, 2>& channels: row -> channel -> value
    rot,         \* Rotators::rot[0..3][i]
    accu,        \* Rotators::channel[0].accu[0..5][i]
    pc,          \* position in FilterAndDownsample
    ii,          \* outer loop variable
    zz,          \* inner loop variable
    out_ix,      \* size_t out_ix
    call,        \* which call on the matrix/instance this is (1, 2)
    hist,        \* history: what the calls did (never read by the code)
    \* ---- FinalizeDb on one frame, channel by channel
    fin,
    \* ---- compare tool (main)
    cmp,
    \* ---- ScoreType / Study of the score tool
    study

filterVars == <<signal, downsampling, channels, rot, accu, pc, ii, zz, out_ix, call, hist>>
vars == <<signal, downsampling, channels, rot, accu, pc, ii, zz, out_ix, call, hist,
          fin, cmp, study>>

-----------------------------------------------------------------------------
(***************************************************************************)
(* Bounds of the model.                                                    *)
(***************************************************************************)
\* kNumRotators (fourier_bank.h): the number of frequency channels, scaled down.
NumRotators == 4
\* longest signal of a call
MaxLen == 4
\* largest downsampling factor
MaxDown == 2
\* most rows of the output matrix
MaxRows == 2

Chan == 0 .. (NumRotators - 1)
Samples == {0, 1}

Max2(a, b) == IF a < b THEN b ELSE a
Min2(a, b) == IF a < b THEN a ELSE b

\* x * num / den rounded toward zero (a float product, rounded)
MulFrac(x, num, den) ==
    IF x >= 0 THEN (x * num) \div den ELSE -(((-x) * num) \div den)

RECURSIVE Log2(_)
\* floor(log2(x)) for x >= 1
Log2(x) == IF x <= 1 THEN 0 ELSE 1 + Log2(x \div 2)

RECURSIVE IsqrtBetween(_, _, _)
\* the largest r in lo .. hi with r * r <= x, by bisection
IsqrtBetween(x, lo, hi) ==
    IF lo >= hi THEN lo
    ELSE LET mid == (lo + hi + 1) \div 2
         IN  IF mid * mid <= x THEN IsqrtBetween(x, mid, hi)
             ELSE IsqrtBetween(x, lo, mid - 1)
\* floor(sqrt(x)) for 0 <= x < 2^30
Isqrt(x) == IsqrtBetween(x, 0, 32767)

RECURSIVE SeqSum(_)
SeqSum(s) == IF s = <<>> THEN 0 ELSE Head(s) + SeqSum(Tail(s))

AllSignals(maxLen) == UNION {[1 .. n -> Samples] : n \in 0 .. maxLen}

-----------------------------------------------------------------------------
(***************************************************************************)
(* Rotators: construction, OccasionallyRenormalize, IncrementAll.          *)
(***************************************************************************)
\* window[i] = pow(kWindow, bw * kBandwidthMagic), a float in (0, 1): WindowNum/WindowDen
WindowNum == 1
WindowDen == 2
\* gain[i] = gainer * filter_gains[i] * pow(windowM1, 3.0)
Gain == 2048

\* cos and sin of q quarter turns
QuarterCos(q) == CASE q % 4 = 0 -> 1 [] q % 4 = 1 -> 0 [] q % 4 = 2 -> -1 [] OTHER -> 0
QuarterSin(q) == CASE q % 4 = 0 -> 0 [] q % 4 = 1 -> 1 [] q % 4 = 2 -> 0 [] OTHER -> -1

\* f = frequency[i] * 2 pi / sample_rate: channel i turns by i + 1 quarter turns a
\* sample (frequency[i] = (i + 1) * sample_rate / 4), so that cos and sin are exact.
window(i) == <<WindowNum, WindowDen>>
gain(i) == Gain

\* Rotators::Rotators: rot[0] = cos f, rot[1] = -sin f, rot[2] = gain, rot[3] = 0
ConstructedRot ==
    [r \in 0 .. 3 |->
        [i \in Chan |->
            CASE r = 0 -> QuarterCos(i + 1)
              [] r = 1 -> -QuarterSin(i + 1)
              [] r = 2 -> gain(i)
              [] OTHER -> 0]]

\* channel.resize(num_channels): the accumulators are value-initialised to zero
ConstructedAccu == [c \in 0 .. 5 |-> [i \in Chan |-> 0]]

\* Rotators::OccasionallyRenormalize
OccasionallyRenormalize(r) ==
    [c \in 0 .. 3 |->
        [i \in Chan |->
            LET norm2 == r[2][i] * r[2][i] + r[3][i] * r[3][i]
                \* rot[c][i] *= gain[i] / sqrt(norm2)
                scaled == MulFrac(r[c][i], gain(i), Isqrt(norm2))
            IN  IF c \in {2, 3} THEN scaled ELSE r[c][i]]]

\* Rotators::IncrementAll, the phase pair of channel i after the step
RotateChannel(r, i) ==
    LET tr == r[0][i] * r[2][i] - r[1][i] * r[3][i]
        tc == r[0][i] * r[3][i] + r[1][i] * r[2][i]
    IN  <<tr, tc>>

\* (mutant) the input sample is pushed into every stage pair of the cascade
CascadeChannelInputEverywhere(a, i, r2, r3, x) ==
    LET w == window(i)
        a0 == MulFrac(a[0][i], w[1], w[2])
        a1 == MulFrac(a[1][i], w[1], w[2])
        a2 == MulFrac(a[2][i], w[1], w[2])
        a3 == MulFrac(a[3][i], w[1], w[2])
        a4 == MulFrac(a[4][i], w[1], w[2])
        a5 == MulFrac(a[5][i], w[1], w[2])
        b2 == a2 + a0 + r2 * x
        b3 == a3 + a1 + r3 * x
        b4 == a4 + b2 + r2 * x
        b5 == a5 + b3 + r3 * x
        b0 == a0 + r2 * x
        b1 == a1 + r3 * x
    IN  <<b0, b1, b2, b3, b4, b5>>

\* Rotators::IncrementAll, the six accumulators of channel i after the step
CascadeChannel(a, i, r2, r3, x) ==
    LET w == window(i)
        a0 == MulFrac(a[0][i], w[1], w[2])
        a1 == MulFrac(a[1][i], w[1], w[2])
        a2 == MulFrac(a[2][i], w[1], w[2])
        a3 == MulFrac(a[3][i], w[1], w[2])
        a4 == MulFrac(a[4][i], w[1], w[2])
        a5 == MulFrac(a[5][i], w[1], w[2])
        b2 == a2 + a0
        b3 == a3 + a1
        b4 == a4 + b2
        b5 == a5 + b3
        b0 == a0 + r2 * x
        b1 == a1 + r3 * x
    IN  <<b0, b1, b2, b3, b4, b5>>

IncrementRot(r) ==
    [c \in 0 .. 3 |->
        [i \in Chan |->
            IF c = 2 THEN RotateChannel(r, i)[1]
            ELSE IF c = 3 THEN RotateChannel(r, i)[2]
            ELSE r[c][i]]]

IncrementAccu(r, a, x) ==
    [c \in 0 .. 5 |->
        [i \in Chan |->
            LET t == RotateChannel(r, i)
            IN  CascadeChannel(a, i, t[1], t[2], x)[c + 1]]]

\* the energy FilterAndDownsample reads for channel k: |(accu[4], accu[5])|^2
Energy(a, k) == a[4][k] * a[4][k] + a[5][k] * a[5][k]

-----------------------------------------------------------------------------
(***************************************************************************)
(* SimpleDb and FinalizeDb.                                                *)
(***************************************************************************)
\* epsilon = 1.0033294789821357e-09 * exp_full_scale_sine_db, in the model's unit
Epsilon == 65536
\* kMul = 10.0 / log(10) decibels per e-fold: 3 decibels per doubling
KMul == 3
\* log(0) = -infinity
NegInf == -1000000

\* SimpleDb(energy) = kMul * log(energy + epsilon)
SimpleDb(energy) ==
    IF energy + Epsilon <= 0 THEN NegInf ELSE KMul * Log2(energy + Epsilon)

\* log(20000 / 20.) / log(2), in thousandths of an octave
OctavesIn20To20000 == 9966
OctavesPerRot == OctavesIn20To20000 \div (NumRotators - 1)
MaskerStepPerOctaveUp0 == 16
MaskerStepPerOctaveUp1 == 22
MaskerStepPerOctaveUp2 == 21
MaskerStepPerRotUp0 == (OctavesPerRot * MaskerStepPerOctaveUp0) \div 1000
MaskerStepPerRotUp1 == (OctavesPerRot * MaskerStepPerOctaveUp1) \div 1000
MaskerStepPerRotUp2 == (OctavesPerRot * MaskerStepPerOctaveUp2) \div 1000
MaskerGapUp == 19
\* maskingStrengthUp, up_blur: per-mille
MaskingStrengthUp == 125
UpBlur == 874
\* fraction_up, fraction_down: per cent
FractionUp == 102
MaskerStepPerOctaveDown == 42
MaskerStepPerRotDown == (OctavesPerRot * MaskerStepPerOctaveDown) \div 1000
MaskerGapDown == 20
MaskingStrengthDown == 193
DownBlur == 714
MinLimit == -11
FractionDown == 102

\* "float v2 = (1 - up_blur) * v2 + up_blur * v;" reads v2 before it is assigned:
\* the value read is indeterminate.  "slot": the build keeps v2 in one stack slot
\* or register, and the read sees the v2 of the previous iteration; "near", "far":
\* it sees some other value, of the magnitude of a loudness, far above it or far
\* below it.
GarbageNear == 500
GarbageFar == 100000
IndeterminateChoices == {"slot", "near", "far", "below"}
Indeterminate(choice, slot) ==
    CASE choice = "slot" -> slot
      [] choice = "near" -> GarbageNear
      [] choice = "far" -> GarbageFar
      [] OTHER -> 0 - GarbageFar

\* mul * channels[{out_ix}][k] with mul = 1.0f / downsampling
Scaled(x, d) == MulFrac(x, 1, d)

\* if (v < min_limit) v = min_limit
ClampToFloor(v) == IF v < MinLimit THEN MinLimit ELSE v

\* v = maskingStrength * mask + (1.0 - maskingStrength) * v, if v < mask
\* (mutant) a sign slip in the blend
BlendUpSignSlip(v, mask) ==
    IF v < mask
    THEN (MaskingStrengthUp * mask - (1000 - MaskingStrengthUp) * v) \div 1000
    ELSE v

BlendUp(v, mask) ==
    IF v < mask
    THEN (MaskingStrengthUp * mask + (1000 - MaskingStrengthUp) * v) \div 1000
    ELSE v

BlendDown(v, mask) ==
    IF v < mask
    THEN (MaskingStrengthDown * mask + (1000 - MaskingStrengthDown) * v) \div 1000
    ELSE v

\* the masker's decay after channel k of the upward sweep
MaskerStepUp(k) ==
    IF 3 * k < NumRotators THEN MaskerStepPerRotUp0
    ELSE IF 3 * k < 2 * NumRotators THEN MaskerStepPerRotUp1
    ELSE MaskerStepPerRotUp2

\* One iteration of the first loop of FinalizeDb (channel k).
\* s = [row, masker, v2]: the frame, the masker and the slot of v2.
UpStep(s, d, k, choice) ==
    LET v0 == ClampToFloor(SimpleDb(Scaled(s.row[k], d)))
        blurred == ((1000 - UpBlur) * Indeterminate(choice, s.v2) + UpBlur * v0) \div 1000
        v2 == IF k = 0 THEN v0 ELSE blurred
        masker == Max2(s.masker, v2)
        mask == (FractionUp * masker) \div 100 - MaskerGapUp
        v == BlendUp(v0, mask)
    IN  [row |-> [s.row EXCEPT ![k] = v],
         masker |-> masker - MaskerStepUp(k),
         v2 |-> v2,
         in |-> v0]

\* (mutant) the second loop converts the stored value as the first loop does, as if
\* it still were a raw energy
DownStepFromEnergy(s, k) ==
    LET v0 == ClampToFloor(SimpleDb(s.row[k]))
        masker == Max2(s.masker, v0)
        mask == (FractionDown * masker) \div 100 - MaskerGapDown
        v == IF v0 < mask
             THEN (MaskingStrengthDown * mask + (1000 - MaskingStrengthDown) * v0) \div 1000
             ELSE v0
    IN  [row |-> [s.row EXCEPT ![k] = v],
         masker |-> masker - MaskerStepPerRotDown,
         v2 |-> s.v2,
         in |-> v0]

\* One iteration of the second loop of FinalizeDb (channel k).  Its v2 is
\* computed and never read again, so it is left out.
DownStep(s, k) ==
    LET v0 == s.row[k]
        masker == Max2(s.masker, v0)
        mask == (FractionDown * masker) \div 100 - MaskerGapDown
        v == BlendDown(v0, mask)
    IN  [row |-> [s.row EXCEPT ![k] = v],
         masker |-> masker - MaskerStepPerRotDown,
         v2 |-> s.v2,
         in |-> v0]

\* the state before the first loop: masker = 0.0
SweepStart(row) == [row |-> row, masker |-> 0, v2 |-> 0, in |-> 0]

RECURSIVE UpSweep(_, _, _, _)
\* the first loop after its iterations k = 0 .. n - 1
UpSweep(row, d, g, n) ==
    IF n = 0 THEN SweepStart(row)
    ELSE CHOOSE r \in {UpStep(s, d, n - 1, g[n - 1]) : s \in {UpSweep(row, d, g, n - 1)}} : TRUE

RECURSIVE DownSweep(_, _)
\* the second loop after its iterations k = kNumRotators - 1 .. kNumRotators - n
DownSweep(row, n) ==
    IF n = 0 THEN SweepStart(row)
    ELSE CHOOSE r \in {DownStep(s, NumRotators - n) : s \in {DownSweep(row, n - 1)}} : TRUE

\* FinalizeDb(channels, mul, out_ix) applied to one row; g[k] is the outcome of the
\* indeterminate read in iteration k of the first loop
FinalizeDb(row, d, g) ==
    CHOOSE r \in {DownSweep(up.row, NumRotators).row :
                     up \in {UpSweep(row, d, g, NumRotators)}} : TRUE

\* the outcomes of the indeterminate reads of one call of FinalizeDb, as the calls of
\* FilterAndDownsample see them: every read of the call sees the slot, or every read
\* sees a value far above a loudness.  (FinUp takes every outcome at every read.)
GarbageChoices == {[k \in Chan |-> c] : c \in {"slot", "far"}}

-----------------------------------------------------------------------------
(***************************************************************************)
(* Rotators::FilterAndDownsample.                                          *)
(***************************************************************************)
\* previous contents of an output matrix handed to a call
StaleValues == {0, 7}

\* channels.shape()[0]
Shape0 == Cardinality(DOMAIN channels)

NewMatrix(rows, stale) == [t \in 0 .. (rows - 1) |-> [k \in Chan |-> stale]]

NoHistory ==
    [fed |-> <<>>,        \* <<input_ix, out_ix>> of every IncrementAll, in order
     renorm |-> <<>>,     \* the number of samples fed before each OccasionallyRenormalize
     finalized |-> <<>>,  \* [ix, raw]: every FinalizeDb: out_ix and the row it was given
     first |-> <<>>]      \* the first call, once a second one has started

\* (mutant) the inner loop takes one sample too many
InnerBoundOneMore(d) == d + 1

\* the inner loop runs while zz < downsampling
InnerBound(d) == d

\* (mutant) subsampling: the frame keeps the energy of its last sample
AccumulateRowSubsample(row, z, a) == [k \in Chan |-> Energy(a, k)]

\* "if (zz == 0) channels[{out_ix}][k] = energy; else channels[{out_ix}][k] += energy;"
AccumulateRow(row, z, a) ==
    [k \in Chan |-> IF z = 0 THEN Energy(a, k) ELSE row[k] + Energy(a, k)]

\* (mutant) a trailing partial frame is dropped
PartialFrameDropped(ix, rows) == FALSE

\* "if (out_ix < channels.shape()[0]) FinalizeDb(...)" when the input runs out
PartialFrameIsFinalized(ix, rows) == ix < rows

\* "if (out_ix != channels.shape()[0] - 1) abort()" when the input runs out
StrangeThing(ix, rows) == ix # rows - 1

\* "if (out_ix >= channels.shape()[0]) return;" after a completed frame
OutputFull(ix, rows) == ix >= rows

InitCall ==
    /\ signal \in AllSignals(MaxLen)
    /\ downsampling \in 1 .. MaxDown
    /\ \E rows \in 0 .. MaxRows : channels = NewMatrix(rows, 0)
    /\ rot = ConstructedRot
    /\ accu = ConstructedAccu
    /\ pc = "loop"
    /\ ii = 0
    /\ zz = 0
    /\ out_ix = 0
    /\ call = 1
    /\ hist = NoHistory

\* line 563, 564: the outer loop test holds; OccasionallyRenormalize()
Renormalize ==
    /\ pc = "loop"
    /\ ii < Len(signal)
    /\ rot' = OccasionallyRenormalize(rot)
    /\ pc' = "frame"
    /\ zz' = 0
    /\ hist' = [hist EXCEPT !.renorm = Append(@, Len(hist.fed))]
    /\ UNCHANGED <<signal, downsampling, channels, accu, ii, out_ix, call, fin, cmp, study>>

\* line 563, 601: the outer loop test fails; the function returns
LoopExit ==
    /\ pc = "loop"
    /\ ii >= Len(signal)
    /\ pc' = "done"
    /\ UNCHANGED <<signal, downsampling, channels, rot, accu, ii, zz, out_ix, call, hist,
                   fin, cmp, study>>

\* lines 566, 578 - 593: IncrementAll(signal[input_ix]) and the energy of every channel
Sample ==
    /\ pc = "frame"
    /\ zz < InnerBound(downsampling)
    /\ ii + zz < Len(signal)
    /\ out_ix < Shape0
    /\ rot' = IncrementRot(rot)
    /\ accu' = IncrementAccu(rot, accu, signal[ii + zz + 1])
    /\ channels' = [channels EXCEPT ![out_ix] = AccumulateRow(@, zz, accu')]
    /\ zz' = zz + 1
    /\ hist' = [hist EXCEPT !.fed = Append(@, <<ii + zz, out_ix>>)]
    /\ UNCHANGED <<signal, downsampling, pc, ii, out_ix, call, fin, cmp, study>>

\* lines 578 - 584 with out_ix outside the matrix (a matrix of no rows): the write
\* "channels[{out_ix}][k] = energy" is outside the array, the behaviour is undefined
OutOfBounds ==
    /\ pc = "frame"
    /\ zz < InnerBound(downsampling)
    /\ ii + zz < Len(signal)
    /\ out_ix >= Shape0
    /\ rot' = IncrementRot(rot)
    /\ accu' = IncrementAccu(rot, accu, signal[ii + zz + 1])
    /\ pc' = "ub"
    /\ hist' = [hist EXCEPT !.fed = Append(@, <<ii + zz, out_ix>>)]
    /\ UNCHANGED <<signal, downsampling, channels, ii, zz, out_ix, call, fin, cmp, study>>

\* lines 567 - 577: the input runs out inside a frame
RunOut ==
    /\ pc = "frame"
    /\ zz < InnerBound(downsampling)
    /\ ii + zz >= Len(signal)
    /\ \E g \in GarbageChoices :
        IF PartialFrameIsFinalized(out_ix, Shape0)
        THEN /\ channels' = [channels EXCEPT
                                ![out_ix] = FinalizeDb(@, downsampling, g)]
             /\ hist' = [hist EXCEPT
                            !.finalized = Append(@, [ix |-> out_ix, raw |-> channels[out_ix]])]
        ELSE UNCHANGED <<channels, hist>>
    /\ pc' = IF StrangeThing(out_ix, Shape0) THEN "abort" ELSE "done"
    /\ UNCHANGED <<signal, downsampling, rot, accu, ii, zz, out_ix, call, fin, cmp, study>>

\* lines 595 - 599: a frame is complete
FrameEnd ==
    /\ pc = "frame"
    /\ zz >= InnerBound(downsampling)
    /\ \E g \in GarbageChoices :
        /\ channels' = [channels EXCEPT ![out_ix] = FinalizeDb(@, downsampling, g)]
        /\ hist' = [hist EXCEPT
                       !.finalized = Append(@, [ix |-> out_ix, raw |-> channels[out_ix]])]
    /\ out_ix' = out_ix + 1
    /\ IF OutputFull(out_ix + 1, Shape0)
       THEN pc' = "done" /\ ii' = ii
       ELSE pc' = "loop" /\ ii' = ii + downsampling
    /\ UNCHANGED <<signal, downsampling, rot, accu, zz, call, fin, cmp, study>>

-----------------------------------------------------------------------------
(***************************************************************************)
(* FinalizeDb on one frame, one loop iteration at a time (SpecFinalize).   *)
(***************************************************************************)
\* the energies of a frame: sums of squares, from silence to a loud channel
FrameEnergies == {0, 16777216}

FilterIdle ==
    /\ signal = <<>>
    /\ downsampling = 1
    /\ channels = NewMatrix(0, 0)
    /\ rot = ConstructedRot
    /\ accu = ConstructedAccu
    /\ pc = "idle"
    /\ ii = 0
    /\ zz = 0
    /\ out_ix = 0
    /\ call = 0
    /\ hist = NoHistory

InitFin ==
    \E raw \in [Chan -> FrameEnergies], d \in 1 .. MaxDown :
        fin = [phase |-> "up",
               k |-> 0,
               s |-> SweepStart(raw),
               raw |-> raw,            \* the frame as FinalizeDb was given it
               d |-> d,
               up |-> raw,             \* the frame as the first loop left it
               log |-> <<>>]           \* <<loop, k, value read, value written>> per iteration

\* lines 512 - 536: one iteration of the first loop
FinUp ==
    /\ fin.phase = "up"
    /\ fin.k < NumRotators
    /\ \E choice \in IndeterminateChoices :
        \E t \in {UpStep(fin.s, fin.d, fin.k, choice)} :
            fin' = [fin EXCEPT !.s = t,
                               !.k = @ + 1,
                               !.log = Append(@, <<"up", fin.k, t.in, t.row[fin.k]>>)]
    /\ UNCHANGED <<filterVars, cmp, study>>

\* lines 536 - 540: the first loop ends; masker = 0.0; the second loop starts at the top
FinTurn ==
    /\ fin.phase = "up"
    /\ fin.k >= NumRotators
    /\ fin' = [fin EXCEPT !.phase = "down",
                          !.k = NumRotators - 1,
                          !.s = SweepStart(fin.s.row),
                          !.up = fin.s.row]
    /\ UNCHANGED <<filterVars, cmp, study>>

\* lines 540 - 555: one iteration of the second loop
FinDown ==
    /\ fin.phase = "down"
    /\ fin.k >= 0
    /\ \E t \in {DownStep(fin.s, fin.k)} :
        fin' = [fin EXCEPT !.s = t,
                           !.k = @ - 1,
                           !.log = Append(@, <<"down", fin.k, t.in, t.row[fin.k]>>)]
    /\ UNCHANGED <<filterVars, cmp, study>>

\* line 556: the second loop ends; FinalizeDb returns
FinReturn ==
    /\ fin.phase = "down"
    /\ fin.k < 0
    /\ fin' = [fin EXCEPT !.phase = "done"]
    /\ UNCHANGED <<filterVars, cmp, study>>

-----------------------------------------------------------------------------
(***************************************************************************)
(* A second call of FilterAndDownsample with the same signal, downsampling *)
(* and number of rows, into a new output matrix (SpecReuse).               *)
(***************************************************************************)
\* (mutant) FilterAndDownsample resets the filterbank when it is entered
InstanceReset == [rot |-> ConstructedRot, accu |-> ConstructedAccu]

\* lines 558 - 563: FilterAndDownsample starts from the phase pairs and accumulators
\* the instance holds; it assigns none of them before the first sample
InstanceOnEntry == [rot |-> rot, accu |-> accu]

\* the call returned; the caller calls again, on the same Rotators instance
\* (fresh = FALSE) or on a newly constructed one (fresh = TRUE), with an output
\* matrix whose previous contents are not those of the first call's matrix
SecondCall ==
    /\ pc = "done"
    /\ call = 1
    /\ \E fresh \in BOOLEAN, stale \in {v \in StaleValues : v # 0} :
        /\ channels' = NewMatrix(Shape0, stale)
        /\ rot' = IF fresh THEN ConstructedRot ELSE InstanceOnEntry.rot
        /\ accu' = IF fresh THEN ConstructedAccu ELSE InstanceOnEntry.accu
        /\ hist' = [NoHistory EXCEPT
                       !.first = <<[fresh |-> fresh,
                                    channels |-> channels,
                                    fed |-> hist.fed,
                                    finalized |-> hist.finalized]>>]
    /\ pc' = "loop"
    /\ ii' = 0
    /\ zz' = 0
    /\ out_ix' = 0
    /\ call' = 2
    /\ UNCHANGED <<signal, downsampling, fin, cmp, study>>

-----------------------------------------------------------------------------
(***************************************************************************)
(* The compare tool (SpecCompare): main() of the Go compare command.       *)
(***************************************************************************)
MaxChannels == 2

\* the sample rates a loaded file can have
Rates == {44100, 48000}

\* aio.Load returns an audio with a rate and one sample slice per channel, or an error
Loaded == [Rate : Rates, Channels : 0 .. MaxChannels]

\* (mutant) the sample rates are not compared
RatesNotCompared(a, b) == TRUE

\* line 50: signalA.Rate != signalB.Rate panics
RatesMatch(a, b) == a.Rate = b.Rate

\* line 54: len(signalA.Samples) != len(signalB.Samples) panics
ChannelsMatch(a, b) == a.Channels = b.Channels

\* lines 58 - 63: the metric printed for a distance
getMetric(outputZimtohrliDistance) ==
    IF outputZimtohrliDistance THEN "distance" ELSE "mos"

\* lines 29 - 39: the flags are parsed and both paths are given
InitCmp ==
    \E perChannel \in BOOLEAN, outputZimtohrliDistance \in BOOLEAN :
        cmp = [pc |-> "load_a",
               perChannel |-> perChannel,
               outputZimtohrliDistance |-> outputZimtohrliDistance,
               signalA |-> <<>>,       \* <<>> until loaded
               signalB |-> <<>>,
               channelIndex |-> 0,
               distances |-> 0,        \* distances computed
               printed |-> <<>>]       \* what was written to standard output

OnlyCmp == UNCHANGED <<filterVars, fin, study>>

\* lines 41 - 44
LoadA ==
    /\ cmp.pc = "load_a"
    /\ \/ \E a \in Loaded : cmp' = [cmp EXCEPT !.signalA = <<a>>, !.pc = "load_b"]
       \/ cmp' = [cmp EXCEPT !.pc = "panic"]
    /\ OnlyCmp

\* lines 45 - 48
LoadB ==
    /\ cmp.pc = "load_b"
    /\ \/ \E b \in Loaded : cmp' = [cmp EXCEPT !.signalB = <<b>>, !.pc = "check_rate"]
       \/ cmp' = [cmp EXCEPT !.pc = "panic"]
    /\ OnlyCmp

\* lines 50 - 52
CheckRate ==
    /\ cmp.pc = "check_rate"
    /\ cmp' = [cmp EXCEPT !.pc = IF RatesMatch(cmp.signalA[1], cmp.signalB[1])
                                 THEN "check_channels" ELSE "panic"]
    /\ OnlyCmp

\* lines 54 - 56, and the branch of line 66
CheckChannels ==
    /\ cmp.pc = "check_channels"
    /\ cmp' = [cmp EXCEPT !.pc = IF ~ChannelsMatch(cmp.signalA[1], cmp.signalB[1])
                                 THEN "panic"
                                 ELSE IF cmp.perChannel THEN "per_channel"
                                 ELSE "aggregated"]
    /\ OnlyCmp

\* lines 67 - 71: one iteration of the loop over the channels of signal A; indexing
\* signalB.Samples beyond its length panics
PerChannelDistance ==
    /\ cmp.pc = "per_channel"
    /\ cmp.channelIndex < cmp.signalA[1].Channels
    /\ IF cmp.channelIndex >= cmp.signalB[1].Channels
       THEN cmp' = [cmp EXCEPT !.pc = "panic"]
       ELSE cmp' = [cmp EXCEPT !.distances = @ + 1,
                               !.printed = Append(@, getMetric(cmp.outputZimtohrliDistance)),
                               !.channelIndex = @ + 1]
    /\ OnlyCmp

\* line 67: the loop over the channels ends
PerChannelDone ==
    /\ cmp.pc = "per_channel"
    /\ cmp.channelIndex >= cmp.signalA[1].Channels
    /\ cmp' = [cmp EXCEPT !.pc = "exit"]
    /\ OnlyCmp

\* lines 73 - 77: NormalizedAudioDistance returns a distance or an error
AggregatedDistance ==
    /\ cmp.pc = "aggregated"
    /\ \/ cmp' = [cmp EXCEPT !.distances = @ + 1,
                             !.printed = Append(@, getMetric(cmp.outputZimtohrliDistance)),
                             !.pc = "exit"]
       \/ cmp' = [cmp EXCEPT !.pc = "panic"]
    /\ OnlyCmp

-----------------------------------------------------------------------------
(***************************************************************************)
(* The score types of a study (SpecStudy): the score command computes the  *)
(* measurements chosen by its flags, Calculate stores them, and Accuracy   *)
(* asks every score type for its direction.                                *)
(***************************************************************************)
MOS == "MOS"
Zimtohrli == "Zimtohrli"
JND == "JND"
ViSQOL == "ViSQOL"

\* the score types a pipe metric can announce (pool.ScoreType): any string
PipeScoreTypes == {"PESQ", "WARP-Q", MOS}

\* lines 51 - 65 of study.go
Better(s) ==
    CASE s = MOS -> 1
      [] s = Zimtohrli -> -1
      [] s = JND -> -1
      [] s = ViSQOL -> 1
      [] OTHER -> 0

\* the scores a study has from its human evaluators
HumanScores == {{MOS}, {JND}, {MOS, JND}}

InitStudy ==
    \E scores \in HumanScores :
        study = [pc |-> "zimtohrli",
                 scores |-> scores,       \* the keys of dist.Scores
                 measurements |-> {},     \* the keys of the measurements map
                 todo |-> {},             \* the score types Accuracy has not visited
                 better |-> {}]           \* <<score type, Better()>> for every call made

OnlyStudy == UNCHANGED <<filterVars, fin, cmp>>

\* score.go lines 194 - 198
CalculateZimtohrli ==
    /\ study.pc = "zimtohrli"
    /\ \E flag \in BOOLEAN :
        study' = [study EXCEPT !.measurements = IF flag THEN @ \cup {Zimtohrli} ELSE @,
                               !.pc = "visqol"]
    /\ OnlyStudy

\* score.go lines 199 - 202
CalculateViSQOL ==
    /\ study.pc = "visqol"
    /\ \E flag \in BOOLEAN :
        study' = [study EXCEPT !.measurements = IF flag THEN @ \cup {ViSQOL} ELSE @,
                               !.pc = "pipe"]
    /\ OnlyStudy

\* score.go lines 203 - 210
CalculatePipeMetric ==
    /\ study.pc = "pipe"
    /\ \/ study' = [study EXCEPT !.pc = "calculate"]
       \/ \E t \in PipeScoreTypes :
            study' = [study EXCEPT !.measurements = @ \cup {t}, !.pc = "calculate"]
    /\ OnlyStudy

\* score.go lines 211 - 214
NoMetrics ==
    /\ study.pc = "calculate"
    /\ study.measurements = {}
    /\ study' = [study EXCEPT !.pc = "exit"]
    /\ OnlyStudy

\* score.go line 221 and study.go lines 298 - 345: every distortion gets a score of
\* every measured type
Calculate ==
    /\ study.pc = "calculate"
    /\ study.measurements # {}
    /\ study' = [study EXCEPT !.scores = @ \cup study.measurements, !.pc = "calculated"]
    /\ OnlyStudy

\* study.go lines 163 - 196: Accuracy collects the score types other than JND; a
\* distortion without a JND score is an error
AccuracyCollect ==
    /\ study.pc = "calculated"
    /\ IF JND \in study.scores
       THEN study' = [study EXCEPT !.todo = study.scores \ {JND}, !.pc = "accuracy"]
       ELSE study' = [study EXCEPT !.pc = "error"]
    /\ OnlyStudy

\* study.go lines 197 - 227: one iteration of the loop over the score types, which
\* calls scoreType.Better() at line 212
AccuracyOfType ==
    /\ study.pc = "accuracy"
    /\ \E t \in study.todo :
        study' = [study EXCEPT !.todo = @ \ {t},
                               !.better = @ \cup {<<t, Better(t)>>}]
    /\ OnlyStudy

\* study.go line 228
AccuracyReturn ==
    /\ study.pc = "accuracy"
    /\ study.todo = {}
    /\ study' = [study EXCEPT !.pc = "done"]
    /\ OnlyStudy

-----------------------------------------------------------------------------
(***************************************************************************)
(* Study.Accuracy for one score type (SpecAccuracy): the threshold search. *)
(***************************************************************************)
MaxScore == 4

\* the scores a distortion can have for the score type
ScoreValues == 1 .. MaxScore

\* the distortions of the study that have a score of the type: their JND and score
ScoredDistortions == [jnd : {0, 1}, score : ScoreValues]

\* study.go lines 140 - 145: abs returns -1, not -i, for a negative i
abs(i) == IF i < 0 THEN -1 ELSE i

RECURSIVE SortedValues(_)
\* sort.Sort(all): the distinct scores in increasing order
SortedValues(values) ==
    IF values = {} THEN <<>>
    ELSE LET least == CHOOSE v \in values : \A w \in values : v <= w
         IN  <<least>> \o SortedValues(values \ {least})

\* sort.SearchFloat64s(sorted scores of the distortions with the given JND, threshold):
\* the number of those scores below the threshold
BelowThreshold(dists, jnd, threshold) ==
    Cardinality({d \in dists : d.jnd = jnd /\ d.score < threshold})

\* study.go lines 207 - 220: accuracy(index), as the number of correctly classified
\* distortions; the code divides it by the number of distortions
accuracy(scoreType, dists, all, index) ==
    LET threshold == all[index + 1]
        audible == Cardinality({d \in dists : d.jnd = 1})
        inaudible == Cardinality({d \in dists : d.jnd = 0})
        audibleBelowThreshold == BelowThreshold(dists, 1, threshold)
        inaudibleBelowThreshold == BelowThreshold(dists, 0, threshold)
    IN  IF Better(scoreType) > 0
        THEN audibleBelowThreshold + (inaudible - inaudibleBelowThreshold)
        ELSE (audible - audibleBelowThreshold) + inaudibleBelowThreshold

\* study.go lines 163 - 206: the scores of one score type are collected and sorted
InitAcc ==
    \E scoreType \in {MOS, Zimtohrli, "PESQ"},
       dists \in (SUBSET ScoredDistortions) \ {{}} :
        study = [pc |-> "search",
                 scoreType |-> scoreType,
                 dists |-> dists,
                 all |-> SortedValues({d.score : d \in dists}),
                 left |-> 0,
                 right |-> Cardinality({d.score : d \in dists}) - 1,
                 result |-> <<>>]

\* study.go lines 148 - 157: one iteration of the loop of ternarySearch
TernaryStep ==
    /\ study.pc = "search"
    /\ abs(study.right - study.left) > 2
    /\ LET third == (study.right - study.left) \div 3
           leftThird == study.left + third
           rightThird == study.right - third
       IN  IF accuracy(study.scoreType, study.dists, study.all, leftThird)
                < accuracy(study.scoreType, study.dists, study.all, rightThird)
           THEN study' = [study EXCEPT !.left = leftThird]
           ELSE study' = [study EXCEPT !.right = rightThird]
    /\ OnlyStudy

\* study.go lines 158, 221 - 226: ternarySearch returns (left + right) / 2 and the
\* AccuracyScore of that index is appended to the result
TernaryReturn ==
    /\ study.pc = "search"
    /\ ~(abs(study.right - study.left) > 2)
    /\ LET best == (study.left + study.right) \div 2
       IN  study' = [study EXCEPT
                        !.pc = "done",
                        !.result = <<[ScoreType |-> study.scoreType,
                                      Threshold |-> study.all[best + 1],
                                      Accuracy |-> accuracy(study.scoreType, study.dists,
                                                            study.all, best)]>>]
    /\ OnlyStudy

-----------------------------------------------------------------------------
(***************************************************************************)
(* Study.Calculate on a worker pool (SpecCalculate).  The study holds one  *)
(* reference with MaxDistortions distortions.  The worker pool is not part *)
(* of the modelled sources: it is taken to be what its use says, Workers   *)
(* goroutines that each run one submitted job at a time, and Error() that  *)
(* waits for all jobs and returns an error if a job returned one.          *)
(***************************************************************************)
MaxDistortions == 2
MaxWorkers == 2

DistortionIds == 1 .. MaxDistortions

\* the score types score.go can put into the measurements map without a pipe metric
MeasuredTypes == {Zimtohrli, ViSQOL}

\* the jobs Calculate submits: for the reference, for a distortion, for one score
RefJob == [kind |-> "ref", dist |-> 0, scoreType |-> ""]
DistJob(d) == [kind |-> "dist", dist |-> d, scoreType |-> ""]
ScoreJob(d, t) == [kind |-> "score", dist |-> d, scoreType |-> t]

Idle == [kind |-> "idle", dist |-> 0, scoreType |-> "", phase |-> ""]

\* worker.Pool.Submit: the job waits until a worker takes it
Submit(queue, jobs) == queue \cup jobs

\* worker.Pool: a worker that runs no job takes any waiting job
PoolCanTake(st, w) == st.running[w] = Idle /\ st.queue # {}

\* worker.Pool.Error(): every submitted job has run to its end
PoolDrained(st) == st.queue = {} /\ \A w \in 1 .. st.workers : st.running[w] = Idle

\* score.go lines 181 - 221: the flags, the opened study and the measurements map;
\* study.go line 299: Calculate takes the measurements and the pool, and no force
InitCalc ==
    \E force \in BOOLEAN, workers \in 1 .. MaxWorkers,
       measurements \in (SUBSET MeasuredTypes) \ {{}},
       scores \in [DistortionIds -> [MeasuredTypes -> {"none", "old"}]] :
        study = [pc |-> "view",
                 force |-> force,
                 workers |-> workers,
                 measurements |-> measurements,
                 before |-> scores,        \* dist.Scores when Calculate is called
                 scores |-> scores,        \* dist.Scores: "none", "old" or "new"
                 measured |-> {},          \* <<d, t>>: measurements[t] was called for d
                 queue |-> {},
                 running |-> [w \in 1 .. workers |-> Idle],
                 errors |-> 0,             \* jobs that returned an error
                 result |-> "none"]

\* study.go lines 300 - 333: the references are read and a job is submitted for each
CalcViewReferences ==
    /\ study.pc = "view"
    /\ \/ study' = [study EXCEPT !.pc = "returned", !.result = "err"]
       \/ study' = [study EXCEPT !.pc = "running", !.queue = Submit(@, {RefJob})]
    /\ OnlyStudy

\* worker.Pool: an idle worker takes a waiting job
PoolTake ==
    /\ study.pc = "running"
    /\ \E w \in 1 .. study.workers, j \in study.queue :
        /\ PoolCanTake(study, w)
        /\ study' = [study EXCEPT
                        !.queue = @ \ {j},
                        !.running[w] = [kind |-> j.kind, dist |-> j.dist,
                                        scoreType |-> j.scoreType, phase |-> "run"]]
    /\ OnlyStudy

\* study.go lines 309 - 333: the job of the reference loads it (log.Fatal on failure)
\* and submits a job for every distortion
JobLoadReference ==
    /\ study.pc = "running"
    /\ \E w \in 1 .. study.workers :
        /\ study.running[w].kind = "ref"
        /\ \/ study' = [study EXCEPT !.pc = "fatal"]
           \/ study' = [study EXCEPT
                           !.running[w] = Idle,
                           !.queue = Submit(@, {DistJob(d) : d \in DistortionIds})]
    /\ OnlyStudy

\* study.go lines 316 - 332: the job of a distortion loads it (an error on failure) and
\* submits a job for every score type of the measurements
JobLoadDistortion ==
    /\ study.pc = "running"
    /\ \E w \in 1 .. study.workers :
        /\ study.running[w].kind = "dist"
        /\ \/ study' = [study EXCEPT !.running[w] = Idle, !.errors = 1]
           \/ study' = [study EXCEPT
                           !.running[w] = Idle,
                           !.queue = Submit(@, {ScoreJob(study.running[w].dist, t) :
                                                    t \in study.measurements})]
    /\ OnlyStudy

\* study.go lines 323 - 326: score, err := measurements[scoreType](refAudio, distAudio)
JobMeasure ==
    /\ study.pc = "running"
    /\ \E w \in 1 .. study.workers :
        /\ study.running[w].kind = "score"
        /\ study.running[w].phase = "run"
        /\ \E failed \in BOOLEAN :
            study' = [study EXCEPT
                         !.measured = @ \cup {<<study.running[w].dist,
                                                study.running[w].scoreType>>},
                         !.errors = IF failed THEN 1 ELSE @,
                         !.running[w] = IF failed THEN Idle
                                        ELSE [@ EXCEPT !.phase = "write"]]
    /\ OnlyStudy

\* study.go line 327: dist.Scores[scoreType] = score
JobWriteScore ==
    /\ study.pc = "running"
    /\ \E w \in 1 .. study.workers :
        /\ study.running[w].kind = "score"
        /\ study.running[w].phase = "write"
        /\ study' = [study EXCEPT
                        !.scores[study.running[w].dist][study.running[w].scoreType] = "new",
                        !.running[w] = Idle]
    /\ OnlyStudy

\* study.go lines 338 - 340: pool.Error() is waited for, and an error is only logged
CalcPoolError ==
    /\ study.pc = "running"
    /\ PoolDrained(study)
    /\ study' = [study EXCEPT !.pc = "put"]
    /\ OnlyStudy

\* study.go lines 341 - 344: the result of Calculate is the result of Put
CalcPut ==
    /\ study.pc = "put"
    /\ \E ok \in BOOLEAN :
        study' = [study EXCEPT !.pc = "returned", !.result = IF ok THEN "nil" ELSE "err"]
    /\ OnlyStudy

-----------------------------------------------------------------------------
(***************************************************************************)
(* Study.Put (SpecPut): references are written to the table OBJ in one     *)
(* transaction.  A second call repeats the first with the same references. *)
(***************************************************************************)
MaxPutRefs == 2

RefNames == {"a", "b"}
RefContents == {1, 2}

\* a Reference: its Name, and what else it holds (Path, Distortions)
References == [Name : RefNames, Content : RefContents]

\* json.Marshal(ref) and json.Unmarshal
Marshal(ref) == <<"json", ref.Name, ref.Content>>
Unmarshal(b) == [Name |-> b[2], Content |-> b[3]]

\* the table OBJ (ID BLOB PRIMARY KEY, DATA BLOB): a set of rows with distinct IDs
Tables ==
    {rows \in SUBSET {[ID |-> n, DATA |-> Marshal(r)] : n \in RefNames, r \in References} :
        \A x, y \in rows : x.ID = y.ID => x = y}

\* INSERT INTO OBJ (ID, DATA) VALUES (?, ?) ON CONFLICT (ID) DO UPDATE SET DATA = ?
Upsert(rows, id, data) ==
    {x \in rows : x.ID # id} \cup {[ID |-> id, DATA |-> data]}

RECURSIVE SeqsUpTo(_, _)
\* the sequences over S of length at most n
SeqsUpTo(S, n) ==
    IF n = 0 THEN {<<>>}
    ELSE LET shorter == SeqsUpTo(S, n - 1)
         IN  shorter \cup {Append(q, x) : q \in {r \in shorter : Len(r) = n - 1}, x \in S}

\* (mutant) the failed transaction is committed instead of rolled back
RollbackKeepsChanges(table, tx) == tx

\* tx.Rollback(), and a transaction that is never committed: the table is as it was
\* when the transaction began
Rollback(table, tx) == table

\* the study as OpenStudy left it, and the references of the call
InitPutCall ==
    \E table \in {rows \in Tables : \A x \in rows : Unmarshal(x.DATA).Name = x.ID},
       refs \in SeqsUpTo(References, MaxPutRefs) :
        study = [pc |-> "begin",
                 table |-> table,     \* the committed rows of OBJ
                 tx |-> table,        \* the rows as the open transaction sees them
                 refs |-> refs,
                 next |-> 1,          \* index of the next reference of the loop
                 before |-> table,    \* the table when the call began
                 puts |-> 1,          \* which call this is
                 earlier |-> "none",  \* the result of the call before this one
                 result |-> "none"]

\* lines 379 - 382: s.db.Begin()
PutBegin ==
    /\ study.pc = "begin"
    /\ \/ study' = [study EXCEPT !.pc = "returned", !.result = "err"]
       \/ study' = [study EXCEPT !.pc = "loop", !.tx = study.table, !.next = 1]
    /\ OnlyStudy

\* lines 384 - 392: json.Marshal and the INSERT of one reference; either can fail
PutReference ==
    /\ study.pc = "loop"
    /\ study.next <= Len(study.refs)
    /\ \/ study' = [study EXCEPT !.pc = "failed"]
       \/ study' = [study EXCEPT
                       !.tx = Upsert(@, study.refs[study.next].Name,
                                     Marshal(study.refs[study.next])),
                       !.next = @ + 1]
    /\ OnlyStudy

\* lines 394 - 399: the loop failed: tx.Rollback(), whose own error is returned if it
\* fails, the error of the loop otherwise
PutRollback ==
    /\ study.pc = "failed"
    /\ study' = [study EXCEPT !.pc = "returned",
                              !.result = "err",
                              !.table = Rollback(study.table, study.tx),
                              !.tx = Rollback(study.table, study.tx)]
    /\ OnlyStudy

\* line 400: return tx.Commit()
PutCommit ==
    /\ study.pc = "loop"
    /\ study.next > Len(study.refs)
    /\ \/ study' = [study EXCEPT !.pc = "returned", !.result = "err",
                                 !.table = Rollback(study.table, study.tx),
                                 !.tx = Rollback(study.table, study.tx)]
       \/ study' = [study EXCEPT !.pc = "returned", !.result = "nil", !.table = study.tx]
    /\ OnlyStudy

\* Put returned; the caller repeats the call with the same references
PutAgain ==
    /\ study.pc = "returned"
    /\ study.puts = 1
    /\ study' = [study EXCEPT !.pc = "begin",
                              !.tx = study.table,
                              !.next = 1,
                              !.before = study.table,
                              !.puts = 2,
                              !.earlier = study.result,
                              !.result = "none"]
    /\ OnlyStudy

\* the parts of the state a specification does not use
FinIdle == fin = [phase |-> "idle"]
CmpIdle == cmp = [pc |-> "idle"]
StudyIdle == study = [pc |-> "idle"]

InitFilter == InitCall /\ FinIdle /\ CmpIdle /\ StudyIdle

NextFilter == Renormalize \/ LoopExit \/ Sample \/ OutOfBounds \/ RunOut \/ FrameEnd

\* one call of FilterAndDownsample on a freshly constructed Rotators
SpecFilter == InitFilter /\ [][NextFilter]_vars

-----------------------------------------------------------------------------
(***************************************************************************)
(* Properties of one call of FilterAndDownsample (SpecFilter).             *)
(***************************************************************************)
\* ceil(n / d): the number of frames a signal of n samples yields
NumFrames(n, d) == (n + d - 1) \div d

Abs(x) == IF x < 0 THEN -x ELSE x

Returned == pc = "done"
Ended == pc \in {"done", "abort"}

\* the frames (values of out_ix) that received a sample
FramesFed == {hist.fed[i][2] : i \in 1 .. Len(hist.fed)}
\* the frames FinalizeDb was applied to
FramesFinalized == {hist.finalized[i].ix : i \in 1 .. Len(hist.finalized)}

\* one more sample x streamed through a filterbank in state p = [rot, accu, rows];
\* rows collects the instantaneous energies read after each sample
StreamStep(p, x) ==
    CHOOSE r \in {[rot |-> IncrementRot(p.rot),
                   accu |-> a,
                   rows |-> Append(p.rows, [k \in Chan |-> Energy(a, k)])] :
                        a \in {IncrementAccu(p.rot, p.accu, x)}} : TRUE

RECURSIVE StreamFrom(_, _, _)
\* the filterbank p after IncrementAll on each of the samples sig[1 .. m]
StreamFrom(p, sig, m) ==
    IF m = 0 THEN p
    ELSE CHOOSE r \in {StreamStep(q, sig[m]) : q \in {StreamFrom(p, sig, m - 1)}} : TRUE

\* a freshly constructed filterbank
Constructed == [rot |-> ConstructedRot, accu |-> ConstructedAccu, rows |-> <<>>]

\* EnergyRows(sig)[j + 1][k]: the instantaneous energy of channel k read after sample
\* j of sig, streamed through a freshly constructed filterbank
EnergyRows(sig) == StreamFrom(Constructed, sig, Len(sig)).rows

RECURSIVE SumEnergies(_, _, _, _)
\* the sum over the samples from .. to - 1 of the energies rows[j + 1][k]
SumEnergies(rows, from, to, k) ==
    IF from >= to THEN 0
    ELSE rows[from + 1][k] + SumEnergies(rows, from + 1, to, k)

\* C2 (as claimed): whenever ceil(n / d) differs from the number of rows by more than
\* one, FilterAndDownsample aborts: it never returns normally.
C2_MismatchAborts ==
    Abs(NumFrames(Len(signal), downsampling) - Shape0) > 1 => ~Returned

\* C3: FinalizeDb is applied exactly once, in increasing frame order, to every frame
\* that received a sample (a trailing partial frame included, also when the call
\* aborts), and to no frame that received none.
C3_FinalizedOncePerFedFrame ==
    /\ \A i \in 1 .. Len(hist.finalized) : hist.finalized[i].ix = i - 1
    /\ FramesFinalized \subseteq FramesFed
    /\ Ended => FramesFed \subseteq FramesFinalized

\* C3 witness: a call that ended after finalizing a trailing partial frame
C3_Witness ==
    /\ Ended
    /\ Len(signal) % downsampling # 0
    /\ Len(hist.finalized) = NumFrames(Len(signal), downsampling)
    /\ Len(hist.finalized) >= 2

\* C4: with at least ceil(n / d) rows, every sample is fed to IncrementAll exactly once
\* and in order, and the row handed to FinalizeDb for frame t holds, per channel, the
\* sum of the instantaneous energies after the samples t * d .. min((t + 1) * d, n) - 1.
C4_FrameSumsEnergies ==
    Shape0 >= NumFrames(Len(signal), downsampling) =>
        /\ \A i \in 1 .. Len(hist.fed) : hist.fed[i][1] = i - 1
        /\ Ended => Len(hist.fed) = Len(signal)
        /\ \A rows \in {EnergyRows(signal)} :
            \A i \in 1 .. Len(hist.finalized), k \in Chan :
                hist.finalized[i].raw[k] =
                    SumEnergies(rows, hist.finalized[i].ix * downsampling,
                                Min2((hist.finalized[i].ix + 1) * downsampling,
                                     Len(signal)), k)

\* C4 witness: the second frame, of two samples whose energies are both positive, was
\* finalized
C4_Witness ==
    /\ Ended
    /\ downsampling >= 2
    /\ Shape0 >= NumFrames(Len(signal), downsampling)
    /\ Len(signal) >= 4
    /\ Len(hist.finalized) >= 2
    /\ \E rows \in {EnergyRows(signal)} :
        /\ rows[3][0] > 0
        /\ rows[4][0] > 0
        /\ hist.finalized[2].raw[0] = rows[3][0] + rows[4][0]

\* C7: OccasionallyRenormalize runs before the first sample, and between two
\* consecutive renormalizations exactly `downsampling` samples are processed; no
\* sample is processed before the first renormalization.
C7_RenormalizedEveryFrame ==
    /\ Len(hist.fed) > 0 => Len(hist.renorm) > 0
    /\ Len(hist.renorm) > 0 => hist.renorm[1] = 0
    /\ \A i \in 1 .. Len(hist.renorm) - 1 :
        hist.renorm[i + 1] - hist.renorm[i] = downsampling
    /\ Len(hist.renorm) > 0 =>
        Len(hist.fed) - hist.renorm[Len(hist.renorm)] <= downsampling

\* C7 witness: a second renormalization, after a full frame of more than one sample
C7_Witness ==
    /\ Len(hist.renorm) >= 2
    /\ downsampling >= 2
    /\ Len(hist.fed) > downsampling

\* the state of one frequency channel i: its column of rot and of channel[0].accu
ChannelOf(r, a, i) == [rot |-> [c \in 0 .. 3 |-> r[c][i]], accu |-> [c \in 0 .. 5 |-> a[c][i]]]

\* what C14 says one IncrementAll step does to one channel, from that channel's own
\* state ch and the sample x alone: w is the window coefficient <<num, den>>
ClaimedChannelStep(ch, w, x) ==
    LET \* the phase pair (rot[2], rot[3]) turned by the increment (rot[0], rot[1])
        tr == ch.rot[0] * ch.rot[2] - ch.rot[1] * ch.rot[3]
        tc == ch.rot[0] * ch.rot[3] + ch.rot[1] * ch.rot[2]
        \* every accumulator is multiplied by the window coefficient
        leaked == [c \in 0 .. 5 |-> MulFrac(ch.accu[c], w[1], w[2])]
        \* stage pair 1 adds stage pair 0, stage pair 2 adds the new stage pair 1
        s2 == leaked[2] + leaked[0]
        s3 == leaked[3] + leaked[1]
        s4 == leaked[4] + s2
        s5 == leaked[5] + s3
        \* the rotated, gain-scaled sample goes into stage pair 0 only
        s0 == leaked[0] + tr * x
        s1 == leaked[1] + tc * x
    IN  [rot |-> [c \in 0 .. 3 |-> CASE c = 2 -> tr [] c = 3 -> tc [] OTHER -> ch.rot[c]],
         accu |-> [c \in 0 .. 5 |->
                      CASE c = 0 -> s0 [] c = 1 -> s1 [] c = 2 -> s2
                        [] c = 3 -> s3 [] c = 4 -> s4 [] OTHER -> s5]]

\* a step of the model in which IncrementAll was called
IncrementAllStep == Len(hist'.fed) = Len(hist.fed) + 1

\* C14: one IncrementAll step takes every channel from its own state and the sample
\* alone to: phase pair rotated by the channel's increment, every accumulator
\* multiplied by the window coefficient, each later stage pair increased by the stage
\* pair before it, the rotated gain-scaled sample added to the first stage pair only;
\* and the energy FilterAndDownsample then reads for the channel is
\* accu[4]^2 + accu[5]^2 (stored when zz = 0, added otherwise).
C14_IncrementAllPerChannel ==
    [][IncrementAllStep =>
        \A i \in Chan :
            /\ ChannelOf(rot', accu', i)
                 = ClaimedChannelStep(ChannelOf(rot, accu, i), window(i),
                                      signal[ii + zz + 1])
            /\ out_ix < Shape0 =>
                 channels'[out_ix][i] =
                    (IF zz = 0 THEN 0 ELSE channels[out_ix][i])
                        + accu'[4][i] * accu'[4][i] + accu'[5][i] * accu'[5][i]]_vars

\* C14 witness: samples were pushed through the cascade: the last stage pair of a
\* channel is not zero and differs from the stage pairs before it
C14_Witness ==
    /\ pc = "frame"
    /\ Len(hist.fed) >= 3
    /\ \E i \in Chan :
        /\ accu[4][i] # 0
        /\ accu[4][i] # accu[2][i]
        /\ accu[2][i] # accu[0][i]
        /\ channels[out_ix][i] > 0

InitFinalize == InitFin /\ FilterIdle /\ CmpIdle /\ StudyIdle

NextFinalize == FinUp \/ FinTurn \/ FinDown \/ FinReturn

\* FinalizeDb on one frame of energies
SpecFinalize == InitFinalize /\ [][NextFinalize]_vars

\* the iterations in the order FinalizeDb makes them: up 0 .. K - 1, then down K - 1 .. 0
SweepOrder(i) ==
    IF i <= NumRotators THEN <<"up", i - 1>> ELSE <<"down", 2 * NumRotators - i>>

\* C5: the upward sweep visits the channels in increasing order and completes before
\* the downward sweep starts; the downward sweep visits them in decreasing order, and
\* what it reads for a channel is the value the upward sweep wrote for that channel,
\* not the raw energy.
C5_UpThenDown ==
    fin.phase # "idle" =>
        /\ \A i \in 1 .. Len(fin.log) :
            /\ <<fin.log[i][1], fin.log[i][2]>> = SweepOrder(i)
            /\ fin.log[i][1] = "down" =>
                /\ fin.log[i][3] = fin.log[fin.log[i][2] + 1][4]
                /\ fin.log[i][3] = fin.up[fin.log[i][2]]
        /\ fin.phase = "done" => Len(fin.log) = 2 * NumRotators

\* C5 witness: FinalizeDb returned, and the downward sweep read for channel 0 the value
\* the upward sweep had written, which the raw energy is not
C5_Witness ==
    /\ fin.phase = "done"
    /\ fin.log[2 * NumRotators][3] = fin.log[1][4]
    /\ fin.log[2 * NumRotators][3] # fin.raw[0]
    /\ \E i \in 1 .. 2 * NumRotators : fin.log[i][3] # fin.log[i][4]

\* C6: the loudness the upward sweep compares with and blends toward the masker is at
\* least min_limit, and every value FinalizeDb has written is at least min_limit.
C6_FloorHolds ==
    fin.phase # "idle" =>
        /\ \A i \in 1 .. Len(fin.log) :
            /\ fin.log[i][3] >= MinLimit
            /\ fin.log[i][4] >= MinLimit
        /\ fin.phase \in {"down", "done"} => \A k \in Chan : fin.s.row[k] >= MinLimit

\* C6 witness: FinalizeDb returned after blending a channel toward the masker in each
\* of the two sweeps
C6_Witness ==
    /\ fin.phase = "done"
    /\ \E i \in 1 .. NumRotators : fin.log[i][4] > fin.log[i][3]
    /\ \E i \in NumRotators + 1 .. 2 * NumRotators : fin.log[i][4] > fin.log[i][3]
    /\ \A k \in Chan : fin.s.row[k] >= MinLimit

NextReuse ==
    Renormalize \/ LoopExit \/ Sample \/ OutOfBounds \/ RunOut \/ FrameEnd \/ SecondCall

\* two calls of FilterAndDownsample, the second on the same or on a new instance
SpecReuse == InitFilter /\ [][NextReuse]_vars

First == hist.first[1]
InSecondCall == call = 2

\* C8 (as claimed): two runs from freshly constructed filterbank state with the same
\* signal, configuration and downsampling factor produce identical output: every row
\* the second run finalized holds what the first run left in that row.
C8_SameOutput ==
    (InSecondCall /\ First.fresh /\ Returned) =>
        \A i \in 1 .. Len(hist.finalized) :
            channels[hist.finalized[i].ix] = First.channels[hist.finalized[i].ix]

\* C9 (as claimed): a further call on the same instance accumulates, frame by frame,
\* the energies the call on the freshly constructed instance accumulated for the same
\* signal: nothing of the previous call is left in the phase pairs and accumulators.
C9_NothingRetained ==
    (InSecondCall /\ ~First.fresh /\ Returned) => hist.finalized = First.finalized

\* the samples the calls fed to IncrementAll, in order
FedSamples(fed) == [i \in 1 .. Len(fed) |-> signal[fed[i][1] + 1]]

\* C9 (amended): FilterAndDownsample never resets the filterbank.  During a further
\* call on the same instance the phase pairs and accumulators are those of a fresh
\* instance through which the samples of the previous call and then the samples of
\* this call were streamed; only on a newly constructed instance are they those of
\* this call's samples alone.
C9_StateCarriesOver ==
    InSecondCall =>
        \A p \in {StreamFrom(Constructed,
                             (IF First.fresh THEN <<>> ELSE FedSamples(First.fed))
                                \o FedSamples(hist.fed),
                             (IF First.fresh THEN 0 ELSE Len(First.fed))
                                + Len(hist.fed))} :
            /\ rot = p.rot
            /\ accu = p.accu

\* C9 witness: a second call on the same instance returned, having started from
\* accumulators that were not zero and having accumulated other energies than the first
C9_Witness ==
    /\ InSecondCall
    /\ ~First.fresh
    /\ Returned
    /\ Len(hist.finalized) >= 1
    /\ hist.finalized # First.finalized
    /\ StreamFrom(Constructed, FedSamples(First.fed), Len(First.fed)).accu # ConstructedAccu

InitCompare == InitCmp /\ FilterIdle /\ FinIdle /\ StudyIdle

NextCompare ==
    \/ LoadA \/ LoadB \/ CheckRate \/ CheckChannels
    \/ PerChannelDistance \/ PerChannelDone \/ AggregatedDistance

\* one run of the compare tool
SpecCompare == InitCompare /\ [][NextCompare]_vars

BothLoaded == cmp.signalA # <<>> /\ cmp.signalB # <<>>

Mismatch ==
    \/ cmp.signalA[1].Rate # cmp.signalB[1].Rate
    \/ cmp.signalA[1].Channels # cmp.signalB[1].Channels

\* C1: when the two loaded signals differ in sample rate or in number of channels the
\* compare tool computes no distance and prints no metric value, in the per-channel
\* and in the aggregated mode alike: it never gets past its checks.
C1_MismatchPrintsNothing ==
    (BothLoaded /\ Mismatch) =>
        /\ cmp.distances = 0
        /\ cmp.printed = <<>>
        /\ cmp.pc \in {"check_rate", "check_channels", "panic"}

\* C1 witness: per-channel mode, signals of one rate but different numbers of
\* channels, the first signal having channels to measure; the tool has panicked
C1_Witness ==
    /\ BothLoaded
    /\ cmp.perChannel
    /\ cmp.signalA[1].Rate = cmp.signalB[1].Rate
    /\ cmp.signalA[1].Channels # cmp.signalB[1].Channels
    /\ cmp.signalA[1].Channels >= 1
    /\ cmp.signalB[1].Channels >= 1
    /\ cmp.pc = "panic"

InitScore == InitStudy /\ FilterIdle /\ FinIdle /\ CmpIdle

NextScore ==
    \/ CalculateZimtohrli \/ CalculateViSQOL \/ CalculatePipeMetric
    \/ NoMetrics \/ Calculate
    \/ AccuracyCollect \/ AccuracyOfType \/ AccuracyReturn

\* a study scored by the score command and then evaluated with Accuracy
SpecStudy == InitScore /\ [][NextScore]_vars

\* C10 (as claimed): for every score type that appears in a study, those of a pipe
\* metric included, Better returns 1 or -1.
C10_BetterIsSigned ==
    \A e \in study.better : e[2] \in {1, -1}

InitAccuracy == InitAcc /\ FilterIdle /\ FinIdle /\ CmpIdle

NextAccuracy == TernaryStep \/ TernaryReturn

\* Study.Accuracy on the scores of one score type
SpecAccuracy == InitAccuracy /\ [][NextAccuracy]_vars

\* C11 (as claimed): no distinct score value used as threshold gives a strictly higher
\* accuracy than the reported threshold, and the reported accuracy is the accuracy at
\* the reported threshold.
C11_ReportedIsMaximal ==
    study.pc = "done" =>
        /\ \A index \in 0 .. Len(study.all) - 1 :
            accuracy(study.scoreType, study.dists, study.all, index)
                <= study.result[1].Accuracy
        /\ \E index \in 0 .. Len(study.all) - 1 :
            /\ study.all[index + 1] = study.result[1].Threshold
            /\ accuracy(study.scoreType, study.dists, study.all, index)
                = study.result[1].Accuracy

InitCalculate == InitCalc /\ FilterIdle /\ FinIdle /\ CmpIdle

NextCalculate ==
    \/ CalcViewReferences \/ PoolTake \/ JobLoadReference \/ JobLoadDistortion
    \/ JobMeasure \/ JobWriteScore \/ CalcPoolError \/ CalcPut

\* one call of Study.Calculate by the score tool
SpecCalculate == InitCalculate /\ [][NextCalculate]_vars

\* C12 (as claimed): with -force false a score a distortion already has for a
\* requested score type is neither recomputed nor overwritten.
C12_ForceFalseKeepsScores ==
    ~study.force =>
        \A d \in DistortionIds, t \in study.measurements :
            study.before[d][t] = "old" =>
                /\ <<d, t>> \notin study.measured
                /\ study.scores[d][t] = "old"

\* C13 (as claimed): whenever Calculate returns nil, every distortion holds a score
\* for every score type of the measurements.
C13_NilMeansAllScored ==
    (study.pc = "returned" /\ study.result = "nil") =>
        \A d \in DistortionIds, t \in study.measurements : study.scores[d][t] # "none"

\* C15 (as claimed): no two jobs running at the same time are both at their write to
\* the Scores map of the same distortion.
C15_NoOverlappingWrites ==
    \A w1, w2 \in 1 .. study.workers :
        (/\ w1 # w2
         /\ study.running[w1].phase = "write"
         /\ study.running[w2].phase = "write")
            => study.running[w1].dist # study.running[w2].dist

InitPut == InitPutCall /\ FilterIdle /\ FinIdle /\ CmpIdle

NextPut == PutBegin \/ PutReference \/ PutRollback \/ PutCommit \/ PutAgain

\* Study.Put, called twice with the same references
SpecPut == InitPut /\ [][NextPut]_vars

\* the reference stored under a name, as a set (empty if there is none)
StoredUnder(table, name) == {Unmarshal(x.DATA) : x \in {y \in table : y.ID = name}}

\* the last reference of the call with the given name, as a set
LastOfName(refs, name) ==
    {refs[i] : i \in {j \in 1 .. Len(refs) :
                        /\ refs[j].Name = name
                        /\ \A k \in (j + 1) .. Len(refs) : refs[k].Name # name}}

PutFailed == study.pc = "returned" /\ study.result = "err"
PutSucceeded == study.pc = "returned" /\ study.result = "nil"

\* C16 (as claimed): a failed Put stores and changes nothing; after a successful Put
\* every reference of the call is stored under its Name; a repeated Put leaves the
\* stored set unchanged.
C16_EveryReferenceStored ==
    /\ PutFailed => study.table = study.before
    /\ PutSucceeded =>
        \A i \in 1 .. Len(study.refs) :
            StoredUnder(study.table, study.refs[i].Name) = {study.refs[i]}
    /\ (PutSucceeded /\ study.earlier = "nil") => study.table = study.before

\* C16 (amended): a failed Put stores and changes nothing.  After a successful Put,
\* under every name that occurs in the call the LAST reference of the call with that
\* name is stored (an earlier one of the same name is replaced within the call), and
\* under every other name what was stored before; a repeated successful Put leaves
\* the stored set unchanged.
C16_AtomicUpsert ==
    /\ study.pc # "returned" => study.table = study.before
    /\ PutFailed => study.table = study.before
    /\ PutSucceeded =>
        \A name \in RefNames :
            StoredUnder(study.table, name) =
                IF \E i \in 1 .. Len(study.refs) : study.refs[i].Name = name
                THEN LastOfName(study.refs, name)
                ELSE StoredUnder(study.before, name)
    /\ (PutSucceeded /\ study.earlier = "nil") => study.table = study.before

\* C16 witness: a repeated Put succeeded after a successful first one; the call holds
\* two references of one name with different contents, and the second of them is the
\* one stored
C16_Witness ==
    /\ PutSucceeded
    /\ study.puts = 2
    /\ study.earlier = "nil"
    /\ Len(study.refs) = 2
    /\ study.refs[1].Name = study.refs[2].Name
    /\ study.refs[1] # study.refs[2]
    /\ StoredUnder(study.table, study.refs[2].Name) = {study.refs[2]}

====
